---- MODULE Spec2Model ----
(***************************************************************************)
(* A model of omnisense/models/sensevoice.py: the batched transcription    *)
(* pipeline of OmniSenseVoiceSmall.transcribe, the parser                  *)
(* OmniTranscription.parse, the short-audio floor of                       *)
(* NumpyDataset.__getitem__, the feature padding of extract_feat /         *)
(* pad_feats and the plain (non-timestamped) CTC decode.                   *)
(*                                                                         *)
(* Each part has its own specification over its own variables; the         *)
(* variables of the other parts stay at their idle values.                 *)
(***************************************************************************)
EXTENDS Integers, Sequences, FiniteSets, TLC

VARIABLES
    \* ---- transcribe (Spec) ----
    audio,              \* the caller's argument, as a sequence of items
    is_list,            \* isinstance(audio, List)
    sort_by_duration,
    batch_size,
    timestamps,
    pc,                 \* "start" | "loop" | "returned" | "raised"
    audios,             \* the ordered work list of (index, item) pairs
    pos,                \* number of work-list entries the DataLoader has consumed
    results,            \* the pre-allocated results array, 0..N-1 -> None | value
    ret,                \* the returned list
    err,                \* the exception raised, or "none"
    writers,            \* history: index -> set of batch numbers that wrote it
    processed,          \* history: the batches run so far, each a sequence of indices
    work,               \* history: number of batches whose work has begun
    \* ---- OmniTranscription.parse (SpecParse) ----
    fields,             \* the record the input string is built from
    input_string,
    parse_pc,
    parse_out,
    \* ---- NumpyDataset.__getitem__ (SpecFloor) ----
    segment,
    gi_pc,
    gi_out,
    \* ---- extract_feat / pad_feats (SpecPad) ----
    feat_list,
    ef_pc,
    ef_out,
    \* ---- plain decode (SpecDecode) ----
    ctc_logits,
    encoder_out_lens,
    dec_pc,
    token_ints

pipeVars   == <<audio, is_list, sort_by_duration, batch_size, timestamps, pc,
                audios, pos, results, ret, err, writers, processed, work>>
parseVars  == <<fields, input_string, parse_pc, parse_out>>
floorVars  == <<segment, gi_pc, gi_out>>
padVars    == <<feat_list, ef_pc, ef_out>>
decodeVars == <<ctc_logits, encoder_out_lens, dec_pc, token_ints>>
vars       == <<pipeVars, parseVars, floorVars, padVars, decodeVars>>

\* Python's None, as a value comparable with the result records.
None == [stage |-> "None"]

(***************************************************************************)
(* Bounds of the model.                                                    *)
(***************************************************************************)
MaxN == 3            \* longest input list
MaxBatch == 3        \* largest batch_size
MaxText == 2         \* longest free text after the four tags
MaxShort == 2        \* waveform lengths within MaxShort of 0 and of the floor
MaxFeatLen == 3      \* longest feature array (time steps)
MaxFeats == 3        \* most feature arrays in one batch
MaxFrames == 3       \* output frames per item in the decode model

\* Duration proxies (sample counts / durations) an item can have.
Durations == {4000, 8000, 16000}

----------------------------------------------------------------------------
(***************************************************************************)
(* Generic helpers.                                                        *)
(***************************************************************************)
Min(a, b) == IF a <= b THEN a ELSE b

RECURSIVE SeqMax(_)
SeqMax(s) == IF Len(s) = 1 THEN s[1]
             ELSE LET m == SeqMax(Tail(s)) IN IF s[1] >= m THEN s[1] ELSE m

Zeros(n) == [k \in 1..n |-> 0]

----------------------------------------------------------------------------
(***************************************************************************)
(* transcribe: ordering, batching, scatter of the results.                 *)
(***************************************************************************)
\* A path is given as a str or as a pathlib.Path.
Kinds == {"str", "Path", "ndarray", "Cut"}
Item  == [kind : Kinds, dur : Durations]
AudioLists == UNION {[1..n -> Item] : n \in 0..MaxN}

\* zip(indexs, audio) / enumerate(audio): pairs (original index, item), 0-based.
Enumerate(a) == [k \in 1..Len(a) |-> [index |-> k - 1, item |-> a[k]]]

\* The comparison sorted() makes between two keys (reverse=False).
KeyBeforeOrEqual(x, y) == x.item.dur <= y.item.dur
KeyBefore(x, y) == x.item.dur < y.item.dur

\* sorted(..., key=..., reverse=False) is stable: an element is placed before
\* the first element whose key is strictly greater.
RECURSIVE InsertSorted(_, _)
InsertSorted(x, s) ==
    IF s = <<>> THEN <<x>>
    ELSE IF KeyBefore(x, s[1]) THEN <<x>> \o s
    ELSE <<s[1]>> \o InsertSorted(x, Tail(s))

RECURSIVE SortedFrom(_, _)
SortedFrom(s, k) ==
    IF k = 0 THEN <<>> ELSE InsertSorted(s[k], SortedFrom(s, k - 1))

Sorted(s) == SortedFrom(s, Len(s))

\* MultiCut(recording=Recording.from_file(i), duration=recording.duration)
AsMultiCut(it) == [kind |-> "Cut", dur |-> it.dur]

\* The ordering branch taken on audio[0], and whether its key / conversion
\* can be evaluated on every element of the list.
OrderError(a) ==
    IF a = <<>> THEN "IndexError"
    ELSE CASE a[1].kind = "Cut" ->
                IF \A k \in 1..Len(a) : a[k].kind = "Cut"
                THEN "none" ELSE "AttributeError"
           [] a[1].kind = "str" ->
                IF \A k \in 1..Len(a) : a[k].kind \in {"str", "Path"}
                THEN "none" ELSE "TypeError"
           [] a[1].kind = "ndarray" ->
                IF \A k \in 1..Len(a) : a[k].kind = "ndarray"
                THEN "none" ELSE "AttributeError"
           [] a[1].kind = "Path" -> "ValueError"

OrderSorted(a) ==
    IF a[1].kind = "str"
    THEN Sorted([k \in 1..Len(a) |->
                    [index |-> k - 1, item |-> AsMultiCut(a[k])]])
    ELSE Sorted(Enumerate(a))

\* The opaque capabilities: model inference followed by detokenization is a
\* pure function of the item's audio; the duration stands for the audio.
Decoded(it) == [stage |-> "decoded", of |-> it.dur]
Parsed(raw) == [stage |-> "parsed", of |-> raw.of, words |-> FALSE]
Aligned(tr) == [tr EXCEPT !.words = TRUE]

Order ==
    /\ pc = "start"
    /\ IF is_list /\ sort_by_duration /\ OrderError(audio) # "none"
       THEN /\ pc' = "raised"
            /\ err' = OrderError(audio)
            /\ UNCHANGED <<audios, results, writers>>
       ELSE /\ audios' = IF ~is_list THEN <<[index |-> 0, item |-> audio[1]]>>
                         ELSE IF sort_by_duration THEN OrderSorted(audio)
                         ELSE Enumerate(audio)
            /\ results' = [i \in 0..(Len(audios') - 1) |-> None]
            /\ writers' = [i \in 0..(Len(audios') - 1) |-> {}]
            /\ pc' = "loop"
            /\ err' = "none"
    /\ UNCHANGED <<audio, is_list, sort_by_duration, batch_size, timestamps,
                   pos, ret, processed, work>>

\* The slot the decode loop writes for position b of the batch.
SlotByPosition(indexs, b) == b - 1
Slot(indexs, b) == indexs[b]

RECURSIVE WriteAll(_, _, _, _)
WriteAll(res, indexs, vals, b) ==
    IF b > Len(indexs) THEN res
    ELSE WriteAll([res EXCEPT ![Slot(indexs, b)] = vals[b]], indexs, vals, b + 1)

RECURSIVE NoteAll(_, _, _, _)
NoteAll(w, indexs, bno, b) ==
    IF b > Len(indexs) THEN w
    ELSE NoteAll([w EXCEPT ![Slot(indexs, b)] = @ \cup {bno}], indexs, bno, b + 1)

\* The next batch the DataLoader yields (shuffle=False): the next batch_size
\* entries of the work list, fewer at the end.
NextBatch == SubSeq(audios, pos + 1, Min(pos + batch_size, Len(audios)))

Batch ==
    /\ pc = "loop"
    /\ pos < Len(audios)
    /\ LET batch  == NextBatch
           indexs == [b \in 1..Len(batch) |-> batch[b].index]
           bno    == Len(processed) + 1
           plain  == [b \in 1..Len(batch) |-> Decoded(batch[b].item)]
           first4 == [b \in 1..Len(batch) |-> Parsed(Decoded(batch[b].item))]
       IN  /\ work' = work + 1
           /\ processed' = Append(processed, indexs)
           /\ pos' = pos + Len(batch)
           /\ IF timestamps
              THEN LET r1 == WriteAll(results, indexs, first4, 1)
                       al == [b \in 1..Len(batch) |-> Aligned(r1[indexs[b]])]
                   IN  results' = WriteAll(r1, indexs, al, 1)
              ELSE results' = WriteAll(results, indexs, plain, 1)
           /\ writers' = NoteAll(writers, indexs, bno, 1)
    /\ UNCHANGED <<audio, is_list, sort_by_duration, batch_size, timestamps,
                   pc, audios, ret, err>>

Return ==
    /\ pc = "loop"
    /\ pos = Len(audios)
    /\ IF timestamps
       THEN /\ ret' = [k \in 1..Len(audios) |-> results[k - 1]]
            /\ pc' = "returned"
            /\ err' = err
       ELSE IF \E i \in DOMAIN results : results[i] = None
            THEN /\ pc' = "raised"
                 /\ err' = "TypeError"
                 /\ ret' = ret
            ELSE /\ ret' = [k \in 1..Len(audios) |-> Parsed(results[k - 1])]
                 /\ pc' = "returned"
                 /\ err' = err
    /\ UNCHANGED <<audio, is_list, sort_by_duration, batch_size, timestamps,
                   audios, pos, results, writers, processed, work>>

----------------------------------------------------------------------------
(***************************************************************************)
(* Properties of transcribe (checked under Spec).                          *)
(***************************************************************************)
Terminal == pc \in {"returned", "raised"}
N == Len(audio)
\* The representation of an item: path, waveform or cut.
Representation(it) ==
    CASE it.kind \in {"str", "Path"} -> "path"
      [] it.kind = "ndarray" -> "waveform"
      [] it.kind = "Cut" -> "cut"
Homogeneous(a) ==
    \A j, k \in 1..Len(a) : Representation(a[j]) = Representation(a[k])
DurOf(i) == audio[i + 1].dur

\* The transcription of one input item, as transcribe returns it.
TranscriptionOf(it) ==
    IF timestamps THEN Aligned(Parsed(Decoded(it))) ELSE Parsed(Decoded(it))

\* C1: for every input list of N items of one representation, every
\* batch_size >= 1 and both values of sort_by_duration, transcribe returns
\* exactly N results and result i is the transcription of input item i.
C1_OrderInvariance ==
    (is_list /\ Homogeneous(audio) /\ Terminal) =>
        /\ pc = "returned"
        /\ Len(ret) = N
        /\ \A k \in 1..N : ret[k] = TranscriptionOf(audio[k])

\* The same statement for the lists whose ordering step does not fail
\* (non-empty, first element not a pathlib.Path when sorting): the scatter
\* by original index is right.
OrderInvarianceNonEmpty ==
    ( /\ is_list /\ Homogeneous(audio) /\ N >= 1 /\ Terminal
      /\ sort_by_duration => audio[1].kind # "Path" ) =>
        /\ pc = "returned"
        /\ Len(ret) = N
        /\ \A k \in 1..N : ret[k] = TranscriptionOf(audio[k])

NonEmptyReordered ==
    /\ pc = "returned" /\ is_list /\ N = 3 /\ sort_by_duration
    /\ audios[1].index # 0 /\ batch_size = 2

\* C2: a list holding more than one representation is rejected with an error
\* before any batch work (feature extraction, inference, decode, a write to
\* the results array) begins, for both values of sort_by_duration.
C2_MixedRejectedBeforeWork ==
    (is_list /\ ~Homogeneous(audio)) =>
        /\ work = 0
        /\ pos = 0
        /\ pc # "returned"
        /\ \A i \in DOMAIN results : results[i] = None

\* C10: transcribe of an empty list returns an empty list without raising,
\* for both values of sort_by_duration.
C10_EmptyListReturnsEmpty ==
    (is_list /\ audio = <<>> /\ pc # "start") =>
        /\ pc # "raised"
        /\ pc = "returned" => ret = <<>>

RECURSIVE Flatten(_)
Flatten(ss) == IF ss = <<>> THEN <<>> ELSE ss[1] \o Flatten(Tail(ss))

\* Item i comes before item j in ascending duration order, ties in input order.
Precedes(i, j) == DurOf(i) < DurOf(j) \/ (DurOf(i) = DurOf(j) /\ i < j)

\* C5: with sort_by_duration, items are processed in ascending order of the
\* duration proxy, ties in input order, in consecutive batches of batch_size
\* items (the last possibly shorter); sample lengths [16000, 4000, 8000] with
\* batch_size 2 run as [4000, 8000] then [16000].
C5_SortedStableBatches ==
    (is_list /\ sort_by_duration /\ pc \in {"loop", "returned"}) =>
        LET order == Flatten(processed)
            done  == {order[p] : p \in 1..Len(order)}
        IN  /\ \A p, q \in 1..Len(order) : p < q => Precedes(order[p], order[q])
            /\ \A i \in done : \A j \in (0..(N - 1)) \ done : Precedes(i, j)
            /\ \A k \in 1..Len(processed) :
                  Len(processed[k]) = Min(batch_size, N - (k - 1) * batch_size)
            /\ pc = "returned" => Len(order) = N
            /\ ( /\ pc = "returned" /\ batch_size = 2 /\ N = 3
                 /\ DurOf(0) = 16000 /\ DurOf(1) = 4000 /\ DurOf(2) = 8000 )
               => processed = << <<1, 2>>, <<0>> >>

C5_Witness ==
    /\ is_list /\ sort_by_duration /\ pc = "returned"
    /\ [k \in 1..N |-> audio[k]] =
          << [kind |-> "ndarray", dur |-> 16000],
             [kind |-> "ndarray", dur |-> 4000],
             [kind |-> "ndarray", dur |-> 8000] >>
    /\ batch_size = 2
    /\ processed = << <<1, 2>>, <<0>> >>

\* The number of the batch that holds original index i.
BatchOf(i) ==
    LET p == CHOOSE k \in 1..Len(audios) : audios[k].index = i
    IN  ((p - 1) \div batch_size) + 1

\* C8: no two batches write the same index of the results array: index i is
\* written only by the batch that holds the item with original index i, and
\* every index has been written when transcribe returns.
C8_OneWriterPerIndex ==
    (pc \in {"loop", "returned"}) =>
        /\ DOMAIN results = 0..(Len(audios) - 1)
        /\ \A i \in DOMAIN results :
              /\ writers[i] \subseteq {BatchOf(i)}
              /\ (results[i] # None) <=> (writers[i] # {})
        /\ pc = "returned" =>
              \A i \in DOMAIN results :
                  writers[i] = {BatchOf(i)} /\ results[i] # None

C8_Witness ==
    /\ pc = "returned" /\ is_list /\ N = 3 /\ batch_size = 2
    /\ sort_by_duration /\ audios[1].index = 2
    /\ writers[2] = {1} /\ writers[0] = {2}

PipeIdle ==
    /\ audio = <<>> /\ is_list = TRUE /\ sort_by_duration = TRUE
    /\ batch_size = 1 /\ timestamps = FALSE /\ pc = "idle"
    /\ audios = <<>> /\ pos = 0 /\ results = <<>> /\ ret = <<>>
    /\ err = "none" /\ writers = <<>> /\ processed = <<>> /\ work = 0

PipeInit ==
    /\ audio \in AudioLists
    /\ is_list \in BOOLEAN
    /\ ~is_list => Len(audio) = 1
    /\ sort_by_duration \in BOOLEAN
    /\ batch_size \in 1..MaxBatch
    /\ timestamps \in BOOLEAN
    /\ pc = "start"
    /\ audios = <<>> /\ pos = 0 /\ results = <<>> /\ ret = <<>>
    /\ err = "none" /\ writers = <<>> /\ processed = <<>> /\ work = 0

ParseIdle ==
    /\ fields = <<>> /\ input_string = <<>> /\ parse_pc = "idle" /\ parse_out = None
FloorIdle ==
    /\ segment = <<>> /\ gi_pc = "idle" /\ gi_out = None
PadIdle ==
    /\ feat_list = <<>> /\ ef_pc = "idle" /\ ef_out = None
DecodeIdle ==
    /\ ctc_logits = <<>> /\ encoder_out_lens = <<>> /\ dec_pc = "idle"
    /\ token_ints = <<>>

Init == PipeInit /\ ParseIdle /\ FloorIdle /\ PadIdle /\ DecodeIdle

Next ==
    \/ Order /\ UNCHANGED <<parseVars, floorVars, padVars, decodeVars>>
    \/ Batch /\ UNCHANGED <<parseVars, floorVars, padVars, decodeVars>>
    \/ Return /\ UNCHANGED <<parseVars, floorVars, padVars, decodeVars>>

Spec == Init /\ [][Next]_vars

----------------------------------------------------------------------------
(***************************************************************************)
(* OmniTranscription.parse.  Strings are sequences of one-character        *)
(* strings.                                                                *)
(***************************************************************************)
NL == "\n"
TextChars == {"a", "|", NL}
TagValues == { <<"a">>, <<"b", NL, ">">>, <<>>, <<"a", "|", "b">> }
Prefixes  == { <<>>, <<"a">> }
Texts == UNION {[1..n -> TextChars] : n \in 0..MaxText}
TagLists == [1..3 -> TagValues] \cup [1..4 -> TagValues]

\* '<|en|><|NEUTRAL|><|Speech|><|withitn|>As you can see...'
RECURSIVE FormatTags(_)
FormatTags(tags) ==
    IF tags = <<>> THEN <<>>
    ELSE <<"<", "|">> \o tags[1] \o <<"|", ">">> \o FormatTags(Tail(tags))

Format(f) == f.prefix \o FormatTags(f.tags) \o f.text

\* [^|]+ : the index after the longest run of characters other than '|'
\* that starts at i.
RECURSIVE ScanNotBar(_, _)
ScanNotBar(s, i) ==
    IF i <= Len(s) /\ s[i] # "|" THEN ScanNotBar(s, i + 1) ELSE i

\* .* : '.' matches any character except a newline.
RECURSIVE ScanDot(_, _)
ScanDot(s, i) ==
    IF i <= Len(s) /\ s[i] # NL THEN ScanDot(s, i + 1) ELSE i

At(s, i, c) == i <= Len(s) /\ s[i] = c

\* <\|([^|]+)\|> matched at index i: the group and the index after the match.
MatchTag(s, i) ==
    LET j == ScanNotBar(s, i + 2)
    IN  IF /\ At(s, i, "<") /\ At(s, i + 1, "|")
           /\ j > i + 2
           /\ At(s, j, "|") /\ At(s, j + 1, ">")
        THEN [ok |-> TRUE, group |-> SubSeq(s, i + 2, j - 1), next |-> j + 2]
        ELSE [ok |-> FALSE, group |-> <<>>, next |-> i]

\* re.match(pattern, input_string): anchored at the start of the string only.
ReMatch(s) ==
    LET t1 == MatchTag(s, 1)
        t2 == MatchTag(s, t1.next)
        t3 == MatchTag(s, t2.next)
        t4 == MatchTag(s, t3.next)
    IN  IF t1.ok /\ t2.ok /\ t3.ok /\ t4.ok
        THEN [ok |-> TRUE,
              groups |-> <<t1.group, t2.group, t3.group, t4.group,
                           SubSeq(s, t4.next, ScanDot(s, t4.next) - 1)>>]
        ELSE [ok |-> FALSE, groups |-> <<>>]

parse(s) ==
    LET m == ReMatch(s)
    IN  IF m.ok
        THEN [ok |-> TRUE, language |-> m.groups[1], emotion |-> m.groups[2],
              event |-> m.groups[3], textnorm |-> m.groups[4],
              text |-> m.groups[5]]
        ELSE [ok |-> FALSE, error |-> "ValueError"]

Parse ==
    /\ parse_pc = "call"
    /\ parse_out' = parse(input_string)
    /\ parse_pc' = "done"
    /\ UNCHANGED <<fields, input_string>>

ParseInit ==
    /\ fields \in [prefix : Prefixes, tags : TagLists, text : Texts]
    /\ input_string = Format(fields)
    /\ parse_pc = "call"
    /\ parse_out = None

InitParse == PipeIdle /\ ParseInit /\ FloorIdle /\ PadIdle /\ DecodeIdle
NextParse == Parse /\ UNCHANGED <<pipeVars, floorVars, padVars, decodeVars>>
SpecParse == InitParse /\ [][NextParse]_vars

\* s[a+1..b] is one bracketed tag <|TAG|>, TAG non-empty and without '|'.
IsTag(s, a, b) ==
    /\ b - a >= 5
    /\ s[a + 1] = "<" /\ s[a + 2] = "|" /\ s[b - 1] = "|" /\ s[b] = ">"
    /\ \A k \in (a + 3)..(b - 2) : s[k] # "|"

\* The indices at which a tag that starts after index a can end.
TagEnds(s, a) == {b \in (a + 5)..Len(s) : IsTag(s, a, b)}

\* The indices at which the fourth tag ends, over every way to read s as
\* <|TAG1|><|TAG2|><|TAG3|><|TAG4|>TEXT (empty when s has not that shape).
ShapeSplits(s) ==
    UNION { UNION { UNION { TagEnds(s, e3) : e3 \in TagEnds(s, e2) }
                    : e2 \in TagEnds(s, e1) }
            : e1 \in TagEnds(s, 0) }

\* C3: parse succeeds exactly on the strings of the shape
\* <|TAG1|><|TAG2|><|TAG3|><|TAG4|>TEXT and fails on every other string; on
\* success the whole remainder after the fourth tag is the text field.
C3_ParseExactShape ==
    parse_pc = "done" =>
        /\ parse_out.ok <=> ShapeSplits(input_string) # {}
        /\ parse_out.ok =>
              \A e \in ShapeSplits(input_string) :
                  parse_out.text =
                      SubSeq(input_string, e + 1, Len(input_string))

\* The part of C3 about which strings are accepted.
ParseAcceptsExactlyShape ==
    parse_pc = "done" => (parse_out.ok <=> ShapeSplits(input_string) # {})

ValidTag(t) == t # <<>> /\ \A k \in 1..Len(t) : t[k] # "|"

\* C4: for four valid tags and any text, parsing
\* <|language|><|emotion|><|event|><|textnorm|>text gives back the same
\* language, emotion, event, textnorm and text.
C4_ParseRoundTrip ==
    ( /\ parse_pc = "done" /\ fields.prefix = <<>> /\ Len(fields.tags) = 4
      /\ \A k \in 1..4 : ValidTag(fields.tags[k]) ) =>
        /\ parse_out.ok
        /\ parse_out.language = fields.tags[1]
        /\ parse_out.emotion = fields.tags[2]
        /\ parse_out.event = fields.tags[3]
        /\ parse_out.textnorm = fields.tags[4]
        /\ parse_out.text = fields.text

----------------------------------------------------------------------------
(***************************************************************************)
(* NumpyDataset.__getitem__: materialize one segment, apply the floor.     *)
(***************************************************************************)
PadFloor == 1000

WaveSeeds == {0, 1, 2}
Wave(len, seed) == [k \in 1..len |-> ((k + seed) % 3) - 1]
WaveLens == (0..MaxShort) \cup ((PadFloor - MaxShort)..(PadFloor + MaxShort))
SegmentKinds == {"ndarray", "str", "Path", "Cut", "other"}

\* np.pad(audio[1], (1000 - shape[0], 0)): the zeros put in front.
FloorPadFront(w) ==
    IF Len(w) <= PadFloor THEN Zeros(PadFloor - Len(w)) \o w ELSE w

\* if audio[1].shape[0] <= 1000: np.pad(audio[1], (0, 1000 - shape[0]))
FloorPad(w) ==
    IF Len(w) <= PadFloor THEN w \o Zeros(PadFloor - Len(w)) ELSE w

\* segment.wave is the array itself (ndarray) or what librosa.load /
\* Cut.load_audio()[0] gives for it; only an ndarray can have ndim # 1.
GetItem ==
    /\ gi_pc = "call"
    /\ gi_pc' = "done"
    /\ gi_out' =
          IF segment.kind \notin {"ndarray", "str", "Path", "Cut"}
          THEN [ok |-> FALSE, error |-> "ValueError"]
          ELSE IF segment.ndim # 1
          THEN [ok |-> FALSE, error |-> "AssertionError"]
          ELSE [ok |-> TRUE, idx |-> segment.idx, wave |-> FloorPad(segment.wave)]
    /\ UNCHANGED segment

FloorInit ==
    /\ segment \in {[idx |-> i, kind |-> kd, ndim |-> nd, wave |-> Wave(l, sd)] :
                       i \in 0..(MaxN - 1), kd \in SegmentKinds, nd \in {1, 2},
                       l \in WaveLens, sd \in WaveSeeds}
    /\ segment.ndim = 2 => segment.kind = "ndarray"
    /\ gi_pc = "call"
    /\ gi_out = None

InitFloor == PipeIdle /\ ParseIdle /\ FloorInit /\ PadIdle /\ DecodeIdle
NextFloor == GetItem /\ UNCHANGED <<pipeVars, parseVars, padVars, decodeVars>>
SpecFloor == InitFloor /\ [][NextFloor]_vars

\* C6: a materialized waveform of length L < 1000 is zero-padded at the end to
\* exactly 1000 samples, its first L samples unchanged; a waveform of length
\* >= 1000 is passed on unchanged.
C6_ShortAudioFloor ==
    (gi_pc = "done" /\ segment.kind # "other" /\ segment.ndim = 1) =>
        LET w == segment.wave
            o == gi_out.wave
        IN  /\ gi_out.ok
            /\ gi_out.idx = segment.idx
            /\ Len(w) < 1000 =>
                  /\ Len(o) = 1000
                  /\ \A k \in 1..Len(w) : o[k] = w[k]
                  /\ \A k \in (Len(w) + 1)..1000 : o[k] = 0
            /\ Len(w) >= 1000 => o = w

C6_Witness ==
    /\ gi_pc = "done" /\ gi_out.ok
    /\ Len(segment.wave) = 999 /\ segment.wave[999] # 0
    /\ Len(gi_out.wave) = 1000 /\ gi_out.wave[1000] = 0

----------------------------------------------------------------------------
(***************************************************************************)
(* extract_feat / pad_feats.  A feature array is a sequence of rows.       *)
(***************************************************************************)
FeatSeeds == {1, 2}
ZeroRow == <<0, 0>>
Feature(len, seed) == [k \in 1..len |-> <<(k * seed) % 3, (k + seed) % 3>>]
Features == {Feature(l, sd) : l \in 1..MaxFeatLen, sd \in FeatSeeds}
FeatBatches == UNION {[1..n -> Features] : n \in 1..MaxFeats}

\* pad_width = ((max_feat_len - cur_len, 0), (0, 0)): zero rows put in front.
pad_feat_front(feat, cur_len, max_feat_len) ==
    [k \in 1..(max_feat_len - cur_len) |-> ZeroRow] \o feat

\* np.pad(feat, ((0, max_feat_len - cur_len), (0, 0)), constant_values=0)
pad_feat(feat, cur_len, max_feat_len) ==
    feat \o [k \in 1..(max_feat_len - cur_len) |-> ZeroRow]

pad_feats(feats, max_feat_len) ==
    [i \in 1..Len(feats) |-> pad_feat(feats[i], Len(feats[i]), max_feat_len)]

\* lfr_cmvn returns each feature array with its number of rows.
extract_feat ==
    /\ ef_pc = "call"
    /\ ef_pc' = "done"
    /\ LET feats_len == [i \in 1..Len(feat_list) |-> Len(feat_list[i])]
       IN  ef_out' = [feats |-> pad_feats(feat_list, SeqMax(feats_len)),
                      feats_len |-> feats_len]
    /\ UNCHANGED feat_list

PadInit ==
    /\ feat_list \in FeatBatches
    /\ ef_pc = "call"
    /\ ef_out = None

InitPad == PipeIdle /\ ParseIdle /\ FloorIdle /\ PadInit /\ DecodeIdle
NextPad == extract_feat /\ UNCHANGED <<pipeVars, parseVars, floorVars, decodeVars>>
SpecPad == InitPad /\ [][NextPad]_vars

\* C9: every padded array has the batch's maximum true length as its time
\* length; nothing is truncated: for every item i, length[i] <= the padded
\* length, rows 0..length[i]-1 are the original rows and every later row is
\* all zeros.
C9_PadInvariant ==
    ef_pc = "done" =>
        LET n == Len(feat_list)
            T == CHOOSE m \in {Len(feat_list[i]) : i \in 1..n} :
                    \A i \in 1..n : Len(feat_list[i]) <= m
        IN  /\ Len(ef_out.feats) = n
            /\ \A i \in 1..n :
                  /\ Len(ef_out.feats[i]) = T
                  /\ ef_out.feats_len[i] = Len(feat_list[i])
                  /\ ef_out.feats_len[i] <= Len(ef_out.feats[i])
                  /\ \A k \in 1..ef_out.feats_len[i] :
                        ef_out.feats[i][k] = feat_list[i][k]
                  /\ \A k \in (ef_out.feats_len[i] + 1)..T :
                        ef_out.feats[i][k] = ZeroRow

C9_Witness ==
    /\ ef_pc = "done" /\ Len(feat_list) = 2
    /\ Len(feat_list[1]) = 1 /\ Len(feat_list[2]) = 3
    /\ feat_list[1][1] # ZeroRow
    /\ Len(ef_out.feats[1]) = 3 /\ ef_out.feats[1][3] = ZeroRow

----------------------------------------------------------------------------
(***************************************************************************)
(* Plain-mode decode of one batch (timestamps = False).                    *)
(***************************************************************************)
blank_id == 0

\* Per-frame scores over a vocabulary of three ids (0 is the blank).
FrameScores == { <<1, 1, 0>>, <<0, 2, 1>>, <<0, 1, 2>> }
LogitRows == [1..MaxFrames -> FrameScores]

\* argmax(dim=-1): the id (0-based) of the first maximal score.
ArgMax(f) ==
    (CHOOSE v \in 1..Len(f) :
        /\ \A u \in 1..Len(f) : f[u] <= f[v]
        /\ \A u \in 1..(v - 1) : f[u] < f[v]) - 1

\* torch.unique_consecutive: every run of equal ids becomes one id.
RECURSIVE unique_consecutive(_)
unique_consecutive(y) ==
    IF Len(y) <= 1 THEN y
    ELSE IF y[1] = y[2] THEN unique_consecutive(Tail(y))
    ELSE <<y[1]>> \o unique_consecutive(Tail(y))

\* yseq[yseq != self.blank_id]
MaskBlank(y) == SelectSeq(y, LAMBDA t : t # blank_id)

\* The blanks removed before the runs are collapsed.
PlainDecodeMaskFirst(maxids, len) ==
    unique_consecutive(MaskBlank(SubSeq(maxids, 1, len)))

\* yseq = ctc_maxids[b, :len]; unique_consecutive; mask; tolist
PlainDecode(maxids, len) ==
    MaskBlank(unique_consecutive(SubSeq(maxids, 1, len)))

MaxIds(row) == [k \in 1..Len(row) |-> ArgMax(row[k])]

Decode ==
    /\ dec_pc = "call"
    /\ dec_pc' = "done"
    /\ token_ints' = [b \in 1..Len(ctc_logits) |->
                         PlainDecode(MaxIds(ctc_logits[b]), encoder_out_lens[b])]
    /\ UNCHANGED <<ctc_logits, encoder_out_lens>>

DecodeInit ==
    /\ ctc_logits \in [1..2 -> LogitRows]
    /\ encoder_out_lens \in [1..2 -> 0..MaxFrames]
    /\ dec_pc = "call"
    /\ token_ints = <<>>

InitDecode == PipeIdle /\ ParseIdle /\ FloorIdle /\ PadIdle /\ DecodeInit
NextDecode == Decode /\ UNCHANGED <<pipeVars, parseVars, floorVars, padVars>>
SpecDecode == InitDecode /\ [][NextDecode]_vars

\* Frame k of ids survives collapsing the runs and then dropping the blanks.
Kept(ids, k) == ids[k] # 0 /\ (k = 1 \/ ids[k] # ids[k - 1])
Rank(ids, k) == Cardinality({j \in 1..k : Kept(ids, j)})

\* C7: the token sequence of item i comes from the argmax ids of frames
\* 0..output_lengths[i]-1 only (later frames never affect it), by collapsing
\* every run of equal ids to one id and then removing every blank id 0.
C7_PlainDecode ==
    dec_pc = "done" =>
        \A b \in 1..Len(ctc_logits) :
            LET ids == MaxIds(ctc_logits[b])
                L   == encoder_out_lens[b]
                t   == token_ints[b]
            IN  /\ Len(t) = Rank(ids, L)
                /\ \A k \in 1..L : Kept(ids, k) => t[Rank(ids, k)] = ids[k]
                /\ \A other \in LogitRows :
                      (\A k \in 1..L : other[k] = ctc_logits[b][k]) =>
                          PlainDecode(MaxIds(other), L) = t

C7_Witness ==
    /\ dec_pc = "done"
    /\ MaxIds(ctc_logits[1]) = <<1, 0, 1>> /\ encoder_out_lens[1] = 3
    /\ token_ints[1] = <<1, 1>>
    /\ MaxIds(ctc_logits[2]) = <<2, 2, 1>> /\ encoder_out_lens[2] = 2
    /\ token_ints[2] = <<2>>

====
